---- MODULE Spec2Model ----
(***************************************************************************)
(* Model of the MCP help-request server: the request_help pipeline         *)
(* (compile -> persist -> transform -> dispatch -> respond), the           *)
(* get_help_session lookup, and the two ticket transformers.               *)
(*                                                                         *)
(* JavaScript strings are TLA+ strings (Len, \o and SubSeq act on them     *)
(* character by character).  JavaScript values whose type matters are      *)
(* tagged records: [t |-> "undefined"], [t |-> "null"], [t |-> "obj", ...].*)
(***************************************************************************)
EXTENDS Integers, Sequences, FiniteSets, TLC

\* ------------------------------------------------------------------------
\* Bounds of the model
\* ------------------------------------------------------------------------

\* issue descriptions are Pad(a) \o keyword \o Pad(b), a <= MaxPre, b <= MaxPost
MaxPre == 1

MaxPost == 31

\* diagnostics.errors carries at most this many entries
MaxErrors == 1

\* ------------------------------------------------------------------------
\* JavaScript string primitives
\* ------------------------------------------------------------------------

Min(a, b) == IF a <= b THEN a ELSE b

UpperChars == "ABCDEFGHIJKLMNOPQRSTUVWXYZ"

LowerChars == "abcdefghijklmnopqrstuvwxyz"

CharAt(s, i) == SubSeq(s, i, i)

\* one character of String.prototype.toLowerCase (ASCII letters)
LowerChar(c) ==
  IF \E i \in 1..26 : CharAt(UpperChars, i) = c
    THEN CharAt(LowerChars, CHOOSE i \in 1..26 : CharAt(UpperChars, i) = c)
    ELSE c

\* the characters of s from position i on, each one lowered
RECURSIVE LowerFrom(_, _)
LowerFrom(s, i) ==
  IF i > Len(s) THEN ""
  ELSE LowerChar(CharAt(s, i)) \o LowerFrom(s, i + 1)

\* String.prototype.toLowerCase
toLowerCase(s) == LowerFrom(s, 1)

\* String.prototype.includes
includes(s, sub) ==
  \E i \in 1..(Len(s) - Len(sub) + 1) : SubSeq(s, i, i + Len(sub) - 1) = sub

\* String.prototype.substring(0, n)
substring0(s, n) == SubSeq(s, 1, Min(n, Len(s)))

Digits == "0123456789"

\* String(n) for a natural number n
RECURSIVE NumToString(_)
NumToString(n) ==
  IF n < 10 THEN CharAt(Digits, n + 1)
  ELSE NumToString(n \div 10) \o CharAt(Digits, (n % 10) + 1)

BoolToString(b) == IF b THEN "true" ELSE "false"

RECURSIVE Pad(_)
Pad(n) == IF n = 0 THEN "" ELSE "x" \o Pad(n - 1)

\* ------------------------------------------------------------------------
\* JavaScript values
\* ------------------------------------------------------------------------

Undefined == [t |-> "undefined"]

Null == [t |-> "null"]

JsString(s) == [t |-> "string", s |-> s]

JsArray(items) == [t |-> "array", items |-> items]

\* truthiness of a tagged value: undefined and null are falsy, objects and
\* arrays (empty ones too) are truthy, a string is truthy unless empty
Truthy(v) ==
  CASE v.t = "undefined" -> FALSE
    [] v.t = "null" -> FALSE
    [] v.t = "string" -> Len(v.s) > 0
    [] OTHER -> TRUE

\* a || b
OrElse(a, b) == IF Truthy(a) THEN a ELSE b

\* s || d for a plain string s
StrOrElse(s, d) == IF Len(s) > 0 THEN s ELSE d

\* property access obj.k / obj?.k on an object held as a function from its
\* own keys: an absent key reads as undefined
Get(obj, k) == IF k \in DOMAIN obj THEN obj[k] ELSE Undefined

\* { ...obj, k: v }
With(obj, k, v) == (k :> v) @@ obj

\* ------------------------------------------------------------------------
\* JSON text, as the sequence of lexical items of one object
\* ------------------------------------------------------------------------

LBrace == [tok |-> "{"]

RBrace == [tok |-> "}"]

Member(k, v) == [tok |-> "member", key |-> k, val |-> v]

\* the order in which the keys of the compiled context are created
KeyOrder ==
  << "session", "conversation", "issue", "workspace", "diagnostics",
     "solutionsAttempted", "environment", "dependencies", "versionControl",
     "performance", "activeFiles" >>

RECURSIVE MembersFrom(_, _)
MembersFrom(obj, i) ==
  IF i > Len(KeyOrder) THEN << >>
  ELSE LET k == KeyOrder[i] IN
       (IF k \in DOMAIN obj /\ obj[k] # Undefined
          THEN << Member(k, obj[k]) >> ELSE << >>)
       \o MembersFrom(obj, i + 1)

\* JSON.stringify(obj): a property whose value is undefined is left out
JSONStringify(obj) == << LBrace >> \o MembersFrom(obj, 1) \o << RBrace >>

WellFormedJSON(toks) ==
  /\ Len(toks) >= 2
  /\ toks[1] = LBrace
  /\ toks[Len(toks)] = RBrace
  /\ \A i \in 2..(Len(toks) - 1) : toks[i].tok = "member"

\* JSON.parse(text) of well-formed text: the object with the members read
JSONParse(toks) ==
  [k \in {toks[i].key : i \in 2..(Len(toks) - 1)} |->
     toks[CHOOSE i \in 2..(Len(toks) - 1) : toks[i].key = k].val]

\* a transformer that puts the value itself into the map
PassValue(v) == v

\* the string JSON.stringify(v) of a value that is not undefined;
\* JSON.stringify(undefined) is undefined, not a string
JSONStringifyValue(v) ==
  IF v = Undefined THEN Undefined ELSE [t |-> "string", json |-> v]

\* ------------------------------------------------------------------------
\* Validated request_help input (the value the host hands to execute)
\* ------------------------------------------------------------------------

Keywords == {"", "urgent", "URGENT", "Critical", "cRiTiCaL", "urgen", "critica l"}

Descriptions ==
  {Pad(a) \o k \o Pad(b) : a \in 0..MaxPre, k \in Keywords, b \in 0..MaxPost}

ErrorDetail1 == [message |-> "TypeError: x is not a function"]

\* diagnostics: absent, present without errors, or with 0..MaxErrors errors
DiagnosticsChoices ==
  {Undefined, [t |-> "obj"]}
    \cup {[t |-> "obj", errors |-> [i \in 1..n |-> ErrorDetail1]] : n \in 0..MaxErrors}

Conversation1 == [messages |-> << [role |-> "user", content |-> "build fails"] >>]

SuppliedSession ==
  [t |-> "obj", sessionId |-> "u1", timestamp |-> "2025-01-01T00:00:00.000Z"]

SessionChoices == {Undefined, SuppliedSession}

\* what the caller claims about the workspace (totalFiles is the caller's)
Workspace1 ==
  [ t |-> "obj", rootPath |-> "/ws",
    files |-> << [path |-> "a.js", size |-> 10] >>,
    structure |-> [t |-> "obj"], totalFiles |-> 7 ]

WorkspaceChoices == {Undefined, Workspace1}

\* the remaining optional sections, each absent or present
OptionalSections ==
  [ solutionsAttempted |->
      JsArray(<< [description |-> "restarted", success |-> FALSE] >>),
    environment |-> [t |-> "obj", nodeVersion |-> "v20.0.0", platform |-> "linux"],
    dependencies |-> JsArray(<< [name |-> "zod", version |-> "3.22.0"] >>),
    versionControl |-> [t |-> "obj", branch |-> "main"],
    performance |-> [t |-> "obj", cpuUsage |-> 50] ]

\* an object holds only the keys the caller sent: zod leaves an absent
\* optional key out of its output
Prune(obj) == [k \in {j \in DOMAIN obj : obj[j] # Undefined} |-> obj[k]]

MakeArgs(session, desc, workspace, diagnostics, full) ==
  Prune(
    [ session |-> session,
      conversation |-> Conversation1,
      issue |-> [description |-> desc],
      workspace |-> workspace,
      diagnostics |-> diagnostics,
      solutionsAttempted |-> IF full THEN OptionalSections.solutionsAttempted ELSE Undefined,
      environment |-> IF full THEN OptionalSections.environment ELSE Undefined,
      dependencies |-> IF full THEN OptionalSections.dependencies ELSE Undefined,
      versionControl |-> IF full THEN OptionalSections.versionControl ELSE Undefined,
      performance |-> IF full THEN OptionalSections.performance ELSE Undefined ])

\* ------------------------------------------------------------------------
\* request_help: session identity and the compiled context
\* ------------------------------------------------------------------------

\* args.session?.sessionId || uuidv4()
ResolveSessionId(args, fresh) ==
  IF Truthy(Get(args, "session")) /\ Len(args.session.sessionId) > 0
    THEN args.session.sessionId ELSE fresh

\* args.session?.timestamp || new Date().toISOString()
ResolveTimestamp(args, now) ==
  IF Truthy(Get(args, "session")) /\ Len(args.session.timestamp) > 0
    THEN args.session.timestamp ELSE now

ProcessEnvironment ==
  [t |-> "obj", nodeVersion |-> "v18.0.0", platform |-> "linux", cwd |-> "/srv"]

\* the helpContext literal of the persisting variant
CompileHelpContext(args, sessionId, timestamp, workspaceState, activeFilesContent) ==
  [ session |-> [sessionId |-> sessionId, timestamp |-> timestamp],
    conversation |-> args.conversation,
    issue |-> args.issue,
    workspace |->
      IF Truthy(Get(args, "workspace"))
        THEN With(args.workspace, "state", workspaceState) ELSE Null,
    diagnostics |-> OrElse(Get(args, "diagnostics"), Null),
    solutionsAttempted |-> OrElse(Get(args, "solutionsAttempted"), JsArray(<< >>)),
    environment |-> OrElse(Get(args, "environment"), ProcessEnvironment),
    dependencies |-> OrElse(Get(args, "dependencies"), JsArray(<< >>)),
    versionControl |-> OrElse(Get(args, "versionControl"), Null),
    performance |-> OrElse(Get(args, "performance"), Null),
    activeFiles |-> [content |-> activeFilesContent] ]

\* argsWithSession of the direct variant: { ...args, session: {...} }
ArgsWithSession(args, sessionId, timestamp) ==
  With(args, "session", [sessionId |-> sessionId, timestamp |-> timestamp])

\* ------------------------------------------------------------------------
\* Ticket transformers
\* ------------------------------------------------------------------------

FallbackIssue == "Development assistance requested"

FallbackTitle == "Development Help Request"

FallbackDescription == "Development assistance requested for user issue"

TitlePrefix == "Development Help Request - "

TitleCut == 30

MinTitle == 5

MinDescription == 10

\* diagnostics?.errors?.length, 0 standing for undefined as well
ErrorCount(diagnostics) ==
  IF Truthy(diagnostics) /\ "errors" \in DOMAIN diagnostics
    THEN Len(diagnostics.errors) ELSE 0

\* description?.toLowerCase().includes('urgent') || ...includes('critical')
HasUrgentKeyword(desc) ==
  \E lowered \in {toLowerCase(desc)} :
    \/ includes(lowered, "urgent")
    \/ includes(lowered, "critical")

\* the two escalations taken in the other order: an error decides first
ContextPriorityErrorsFirst(helpContext) ==
  IF ErrorCount(helpContext.diagnostics) > 0 THEN "high"
  ELSE IF HasUrgentKeyword(helpContext.issue.description) THEN "urgent"
  ELSE "medium"

\* the priority rule of transformHelpContextToTicket
ContextPriority(helpContext) ==
  LET p1 == IF ErrorCount(helpContext.diagnostics) > 0 THEN "high" ELSE "medium"
  IN IF HasUrgentKeyword(helpContext.issue.description) THEN "urgent" ELSE p1

\* `${issueDesc.substring(0, 30)}${issueDesc.length > 30 ? '...' : ''}`
Truncated(issueDesc) ==
  substring0(issueDesc, TitleCut) \o (IF Len(issueDesc) > TitleCut THEN "..." ELSE "")

ContextDescription(issueDesc) ==
  IF Len(issueDesc) >= MinDescription THEN issueDesc ELSE FallbackDescription

transformHelpContextToTicket(helpContext) ==
  LET issueDesc == StrOrElse(helpContext.issue.description, FallbackIssue)
      title == TitlePrefix \o Truncated(issueDesc)
      workspaceFiles ==
        IF Truthy(helpContext.workspace) /\ "totalFiles" \in DOMAIN helpContext.workspace
          THEN helpContext.workspace.totalFiles ELSE 0
  IN [ title |-> IF Len(title) >= MinTitle THEN title ELSE FallbackTitle,
       description |-> ContextDescription(issueDesc),
       priority |-> ContextPriority(helpContext),
       metadata |->
         [ rawContext |-> JSONStringifyValue(JsArray(JSONStringify(helpContext))),
           sessionId |-> JsString(helpContext.session.sessionId),
           timestamp |-> JsString(helpContext.session.timestamp),
           hasErrors |->
             JsString(BoolToString(ErrorCount(helpContext.diagnostics) > 0)),
           conversationLength |->
             JsString(NumToString(Len(helpContext.conversation.messages))),
           workspaceFiles |-> JsString(NumToString(workspaceFiles)) ] ]

\* the direct variant sends issueDesc itself as the description
ArgsDescription(issueDesc) == issueDesc

transformArgsToTicket(args) ==
  LET issueDesc == StrOrElse(args.issue.description, FallbackIssue)
      title == Truncated(issueDesc)
  IN [ title |-> IF Len(title) >= MinTitle THEN title ELSE FallbackTitle,
       description |-> ArgsDescription(issueDesc),
       priority |-> "medium",
       metadata |-> [k \in DOMAIN args |-> JSONStringifyValue(args[k])] ]

\* ------------------------------------------------------------------------
\* The remote ticket endpoint and the fetch Response
\* ------------------------------------------------------------------------

\* an object read from JSON text: its members <<key, value>> in text order
JsObject(members) == [t |-> "obj", members |-> members]

\* result.k / result?.k on such an object
Lookup(obj, k) ==
  IF \E i \in 1..Len(obj.members) : obj.members[i][1] = k
    THEN obj.members[CHOOSE i \in 1..Len(obj.members) : obj.members[i][1] = k][2]
    ELSE Undefined

\* a reply body is either JSON text denoting an object or other text
JsonBody(value) == [kind |-> "json", value |-> value]

TextBody(text) == [kind |-> "text", text |-> text]

DbDown == JsObject(<< << "error", JsString("db down") >> >>)

Replies ==
  << [status |-> 200, statusText |-> "OK",
     body |-> JsonBody(JsObject(
                << << "id", JsString("T-1") >>, << "status", JsString("open") >>,
                   << "priority", JsString("high") >>,
                   << "ticketUrl", JsString("https://t/1") >> >>))],
    [status |-> 200, statusText |-> "OK", body |-> TextBody("<html>ok</html>")],
    [status |-> 500, statusText |-> "Internal Server Error", body |-> JsonBody(DbDown)],
    [status |-> 502, statusText |-> "Bad Gateway", body |-> TextBody("Bad Gateway")],
    [status |-> 404, statusText |-> "Not Found", body |-> TextBody("")] >>

NoResponse == [status |-> 0]

\* a test that takes every answered request for a success
ResponseOkAnyStatus(response) == response.status >= 200

\* response.ok
ResponseOk(response) == response.status >= 200 /\ response.status <= 299

\* JSON.stringify(errorBody, null, 2) of a flat object with string values
RECURSIVE PrettyMembers(_, _)
PrettyMembers(members, i) ==
  IF i > Len(members) THEN ""
  ELSE "  \"" \o members[i][1] \o "\": \"" \o members[i][2].s \o "\""
       \o (IF i < Len(members) THEN ",\n" ELSE "\n")
       \o PrettyMembers(members, i + 1)

JSONStringifyPretty(obj) ==
  IF Len(obj.members) = 0 THEN "{}" ELSE "{\n" \o PrettyMembers(obj.members, 1) \o "}"

\* the text on the wire of a reply body
BodyText(body) ==
  IF body.kind = "text" THEN body.text ELSE "<json>"

BodyUsedMessage == "Body is unusable: Body has already been read"

ParseErrorMessage == "Unexpected token in JSON"

\* response.json(): the body is a one-shot stream; reading it marks it used,
\* whether or not the text then parses.  A used body rejects with a TypeError.
ResponseJson(response) ==
  IF response.bodyUsed THEN [ok |-> FALSE, message |-> BodyUsedMessage]
  ELSE IF response.body.kind = "json" THEN [ok |-> TRUE, value |-> response.body.value]
  ELSE [ok |-> FALSE, message |-> ParseErrorMessage]

\* response.text(): rejects with a TypeError when the body was already read
ResponseText(response) ==
  IF response.bodyUsed THEN [ok |-> FALSE, message |-> BodyUsedMessage]
  ELSE [ok |-> TRUE, value |-> BodyText(response.body)]

\* ------------------------------------------------------------------------
\* Messages returned to the host
\* ------------------------------------------------------------------------

\* errorDetails of sendHelpRequestToAPI for a non-2xx response
StatusLine(response) ==
  "API request failed with status " \o NumToString(response.status)
    \o ": " \o response.statusText

ApiErrorMarker == "API Error Response:"

\* `${v}` of a value that may be undefined
Interpolate(v) == IF v.t = "string" THEN v.s ELSE "undefined"

\* the string execute returns from its catch block (persisting and direct variants)
UserErrorMessage(sessionId, message) ==
  "STOP DIAGNOSING - ERROR IN HELP REQUEST\n\nPlease inform the user: There was an error sending the help request to our support API (Session ID: "
    \o sessionId \o ").\n\nError Details:\n" \o message
    \o (IF includes(message, ApiErrorMarker)
          THEN "\n\nThis error came directly from the support API. Please check the API response above for specific details about what went wrong."
          ELSE "")
    \o "\n\nAdvise the user to try again or contact support directly. DO NOT CONTINUE TROUBLESHOOTING."

SuccessHeader == "STOP DIAGNOSING - HUMAN HELP REQUESTED"

\* the string execute returns after a successful dispatch
UserSuccessMessage(sessionId, apiResponse) ==
  SuccessHeader
    \o "\n\nPlease inform the user: I've captured your help request and prepared a support ticket. To complete the ticket creation, please click on the ticket link below and login with your account.\n\nTicket ID: "
    \o Interpolate(apiResponse.ticketId) \o "\nSession ID: " \o sessionId
    \o "\nPriority: " \o Interpolate(apiResponse.priority)
    \o "\nStatus: " \o Interpolate(apiResponse.status)
    \o "\nTicket Link: " \o Interpolate(apiResponse.ticketUrl)
    \o "\n\nAsk the user to click on the ticket link to finalize their support request. DO NOT CONTINUE TROUBLESHOOTING."

\* generateZoomLink(sessionId)
generateZoomLink(sessionId) ==
  "https://zoom.us/j/1234567890?pwd=helpme123&sessionId=" \o sessionId

\* the string the single-file server returns once the context is logged
ZoomSuccessMessage(sessionId) ==
  SuccessHeader
    \o "\n\nPlease inform the user: I've captured your help request and created a support session. Direct the user to join this Zoom meeting for immediate assistance: "
    \o generateZoomLink(sessionId) \o "\n\nSession ID: " \o sessionId
    \o "\n\nDO NOT CONTINUE TROUBLESHOOTING. A human support agent will handle this issue."

\* the string the single-file server returns from its catch block
ZoomErrorMessage(sessionId, message) ==
  "STOP DIAGNOSING - ERROR IN HELP REQUEST\n\nPlease inform the user: There was an error creating the support session (Session ID: "
    \o sessionId \o "). Error: " \o message
    \o "\n\nAdvise the user to try again or contact support directly. DO NOT CONTINUE TROUBLESHOOTING."

DefaultApiMessage == "Help request ticket created successfully"

\* a normalisation that reads the top-level fields before the nested ticket
NormalizeTopLevelFirst(result, sessionId) ==
  LET ticket == Lookup(result, "ticket")
      nested(k) == IF Truthy(ticket) THEN Lookup(ticket, k) ELSE Undefined
  IN [ ticketId |-> OrElse(Lookup(result, "id"), nested("id")),
       status |-> OrElse(Lookup(result, "status"), nested("status")),
       priority |-> OrElse(Lookup(result, "priority"), nested("priority")),
       ticketUrl |-> Lookup(result, "ticketUrl"),
       sessionId |-> sessionId,
       message |-> OrElse(Lookup(result, "message"), JsString(DefaultApiMessage)) ]

\* the object sendHelpRequestToAPI returns for a 2xx reply with a JSON body
NormalizeApiResult(result, sessionId) ==
  LET ticket == Lookup(result, "ticket")
      nested(k) == IF Truthy(ticket) THEN Lookup(ticket, k) ELSE Undefined
  IN [ ticketId |-> OrElse(nested("id"), Lookup(result, "id")),
       status |-> OrElse(nested("status"), Lookup(result, "status")),
       priority |-> OrElse(nested("priority"), Lookup(result, "priority")),
       ticketUrl |-> Lookup(result, "ticketUrl"),
       sessionId |-> sessionId,
       message |-> OrElse(Lookup(result, "message"), JsString(DefaultApiMessage)) ]

\* ------------------------------------------------------------------------
\* captureWorkspaceState
\* ------------------------------------------------------------------------

\* files whose modification time is looked at: files.slice(0, 20)
StatSample == 20

\* recentFiles keeps this many: .slice(0, 10)
RecentCap == 10

\* arr.slice(0, n)
slice0(arr, n) == SubSeq(arr, 1, Min(n, Len(arr)))

\* path.extname(file) || 'no-extension'
ExtKey(ext) == IF Len(ext) > 0 THEN ext ELSE "no-extension"

\* workspaceState.fileTypes after files.forEach: a count per extension
FileTypes(files) ==
  [e \in {ExtKey(files[k].ext) : k \in 1..Len(files)} |->
     Cardinality({k \in 1..Len(files) : ExtKey(files[k].ext) = e})]

\* fileStats: {file, mtime} for a file fs.stat succeeds on, null otherwise,
\* then .filter(Boolean)
RECURSIVE StatAll(_)
StatAll(files) ==
  IF Len(files) = 0 THEN << >>
  ELSE (IF Head(files).stat
          THEN << [file |-> Head(files).file, mtime |-> Head(files).mtime] >>
          ELSE << >>)
       \o StatAll(Tail(files))

\* one insertion of a stable sort under (a, b) => b.mtime - a.mtime
RECURSIVE InsertByMtime(_, _)
InsertByMtime(sorted, x) ==
  IF Len(sorted) = 0 THEN << x >>
  ELSE IF Head(sorted).mtime >= x.mtime
    THEN << Head(sorted) >> \o InsertByMtime(Tail(sorted), x)
  ELSE << x >> \o sorted

RECURSIVE SortFrom(_, _, _)
SortFrom(items, i, sorted) ==
  IF i > Len(items) THEN sorted
  ELSE SortFrom(items, i + 1, InsertByMtime(sorted, items[i]))

\* a scanner that keeps the stat'd files in the order glob listed them
KeepGlobOrder(items) == items

\* .sort((a, b) => b.mtime - a.mtime): newest first, ties in their old order
SortByMtimeDesc(items) == SortFrom(items, 1, << >>)

\* .map((item) => item.file)
FileNames(items) == [k \in 1..Len(items) |-> items[k].file]

\* a scanner that looks at the modification time of every file listed
AllListed(files) == files

\* files.slice(0, 20): the files fs.stat is called on
StatCandidates(files) == slice0(files, StatSample)

\* captureWorkspaceState(workspacePath) on a workspace ws: ws.root tells
\* whether the path exists ("absent": pathExists is false) and whether glob
\* can list it ("unreadable": glob throws); ws.files is what glob lists
captureWorkspaceState(ws) ==
  IF ws.root = "absent" THEN Null
  ELSE IF ws.root = "unreadable" THEN Null
  ELSE [ t |-> "obj",
         totalFiles |-> Len(ws.files),
         fileTypes |-> FileTypes(ws.files),
         recentFiles |->
           FileNames(slice0(SortByMtimeDesc(StatAll(StatCandidates(ws.files))),
                            RecentCap)),
         structure |-> [t |-> "obj"] ]

\* the workspace at Workspace1.rootPath, as a request may find it
AbsentWorkspace == [root |-> "absent", files |-> << >>]

SmallWorkspace ==
  [ root |-> "ok",
    files |-> << [file |-> "a.js", ext |-> ".js", mtime |-> 1, stat |-> TRUE],
                 [file |-> "b.js", ext |-> ".js", mtime |-> 2, stat |-> TRUE],
                 [file |-> "README", ext |-> "", mtime |-> 3, stat |-> FALSE] >> ]

PipelineWorkspaces == {AbsentWorkspace, SmallWorkspace}

\* ------------------------------------------------------------------------
\* captureActiveFilesContent
\* ------------------------------------------------------------------------

\* activeFiles.slice(0, 5)
MaxActiveFiles == 5

\* stats.size < 50000
MaxFileSize == 50000

\* content.substring(0, 2000)
MaxContentLength == 2000

\* s repeated n times
RECURSIVE Repeat(_, _)
Repeat(s, n) ==
  IF n = 0 THEN ""
  ELSE LET half == Repeat(s, n \div 2)
       IN IF n % 2 = 0 THEN half \o half ELSE half \o half \o s

\* occurrences of '\n' in s
RECURSIVE CountNewlines(_)
CountNewlines(s) ==
  IF Len(s) = 0 THEN 0
  ELSE IF Len(s) = 1 THEN (IF s = "\n" THEN 1 ELSE 0)
  ELSE LET m == Len(s) \div 2
       IN CountNewlines(SubSeq(s, 1, m)) + CountNewlines(SubSeq(s, m + 1, Len(s)))

\* content.split('\n').length
Lines(content) == CountNewlines(content) + 1

StatErrorMessage == "EACCES: permission denied, stat"

ReadErrorMessage == "EISDIR: illegal operation on a directory, read"

TooLargeNote == "File too large to include content"

\* a sampler that reads a file of exactly the limit as well
WithinLimitInclusive(size) == size <= MaxFileSize

\* stats.size < 50000
WithinLimit(size) == size < MaxFileSize

\* one turn of the loop on a path f of the list; f says what the file system
\* answers for it. The result is the entry put under filesContent[file], if any
SampleFile(f) ==
  IF ~f.exists THEN << >>
  ELSE IF ~f.stat THEN << [path |-> f.path, error |-> StatErrorMessage] >>
  ELSE IF WithinLimit(f.size)
    THEN IF ~f.read THEN << [path |-> f.path, error |-> ReadErrorMessage] >>
         ELSE << [ path |-> f.path, size |-> f.size, lines |-> Lines(f.content),
                   content |-> substring0(f.content, MaxContentLength) ] >>
  ELSE << [path |-> f.path, size |-> f.size, note |-> TooLargeNote] >>

IsErrorEntry(entries) == Len(entries) = 1 /\ "error" \in DOMAIN entries[1]

\* a loop that a failing path leaves: the error is recorded and the rest skipped
RECURSIVE SampleUntilError(_)
SampleUntilError(paths) ==
  IF Len(paths) = 0 THEN << >>
  ELSE IF IsErrorEntry(SampleFile(Head(paths))) THEN SampleFile(Head(paths))
  ELSE SampleFile(Head(paths)) \o SampleUntilError(Tail(paths))

\* for (const file of ...) { try {...} catch {...} }: every path gets its turn
RECURSIVE SampleAll(_)
SampleAll(paths) ==
  IF Len(paths) = 0 THEN << >>
  ELSE SampleFile(Head(paths)) \o SampleAll(Tail(paths))

\* a loop over the whole list
AllPaths(paths) == paths

\* activeFiles.slice(0, 5)
FirstPaths(paths) == slice0(paths, MaxActiveFiles)

\* the paths the loop body runs on, i.e. asks the file system about
Probed(active) ==
  IF ~active.isArray THEN << >>
  ELSE [k \in 1..Len(FirstPaths(active.paths)) |-> FirstPaths(active.paths)[k].path]

\* captureActiveFilesContent(activeFiles, workspacePath): filesContent, its
\* keys in insertion order
captureActiveFilesContent(active) ==
  IF ~active.isArray THEN [t |-> "obj", entries |-> << >>]
  ELSE [t |-> "obj", entries |-> SampleAll(FirstPaths(active.paths))]

\* a readable file of the workspace
SmallFile(path) ==
  [ path |-> path, exists |-> TRUE, stat |-> TRUE, read |-> TRUE,
    size |-> 10, content |-> "let a = 1;" ]

\* Workspace1.files as captureActiveFilesContent finds them
PipelineActive == [kind |-> "active", isArray |-> TRUE, paths |-> << SmallFile("a.js") >>]

\* ------------------------------------------------------------------------
\* State
\* ------------------------------------------------------------------------

\* tool invocations the host may start (each slot is used once)
MaxCalls == 2

Slots == 1..MaxCalls

\* invocations when the session store alone is exercised
StoreCalls == 3

StoreSlots == 1..StoreCalls

VARIABLES
  variant,      \* which request_help implementation is registered:
                \* "persist" (persist, then dispatch), "direct" (dispatch
                \* only) or "zoom" (the single-file server: persist, then
                \* hand out the meeting link)
  calls,        \* per slot: the invocation's position and locals
  files,        \* logs/help-session-<id>.json, per session id
  lastPersist,  \* history: per id, the record of the last completed writeJson
  returned,     \* the invocation that has just returned, as it returned
  tArgs,        \* ticket transformers in isolation: the input
  tTicket,      \* ... the ticket built
  tBy,          \* ... and by which transformer
  useMockAPI    \* HELP_API_CONFIG.useMockAPI: USE_MOCK_API === 'true'

vars == << variant, calls, files, lastPersist, returned, tArgs, tTicket, tBy, useMockAPI >>

ticketVars == << tArgs, tTicket, tBy >>

\* uuidv4() of the invocation in slot i: fresh for every invocation
GenId(i) == "g" \o NumToString(i)

\* the ids in use: the caller's, and the one each slot would generate (the
\* generated id of a slot that never writes stands for an unknown id)
SessionKeys == {SuppliedSession.sessionId} \cup {GenId(i) : i \in Slots}

\* the ids in use when every request carries the caller's session
StoreKeys == {SuppliedSession.sessionId}

Now == "2025-06-01T12:00:00.000Z"

NoFile == [exists |-> FALSE, toks |-> << >>, junk |-> 0]

NoResult == [kind |-> "none"]

NoReturn == [slot |-> 0]

NoTicket == [title |-> "", description |-> "", priority |-> "", metadata |-> << >>]

IdleCall ==
  [ tool |-> "none", pc |-> "idle", args |-> << >>, sessionId |-> "",
    timestamp |-> "", workspaceState |-> Null, helpContext |-> << >>,
    ticket |-> NoTicket, posts |-> 0, wrote |-> FALSE, response |-> NoResponse,
    result |-> NoResult, saw |-> [some |-> FALSE], everPersisted |-> FALSE,
    violation |-> "ok" ]

\* requests used when whole invocations are interleaved: a minimal one,
\* without and with a caller's session, and one with every section present
PipelineRequests ==
  {MakeArgs(s, "Build fails with urgent error", Undefined, Undefined, FALSE)
     : s \in SessionChoices}
  \cup
  {MakeArgs(SuppliedSession, "bug", Workspace1,
            [t |-> "obj", errors |-> << ErrorDetail1 >>], TRUE)}

\* requests the schema refuses: no conversation, no issue.description, a
\* message role outside the enumeration
InvalidRequests ==
  { [session |-> SuppliedSession, issue |-> [description |-> "x"]],
    [ session |-> SuppliedSession, conversation |-> Conversation1,
      issue |-> [additionalContext |-> "more"] ],
    [ session |-> SuppliedSession,
      conversation |-> [messages |-> << [role |-> "robot", content |-> "hi"] >>],
      issue |-> [description |-> "x"] ] }

\* what captureWorkspaceState may return for Workspace1.rootPath
ScanOutcomes == {captureWorkspaceState(ws) : ws \in PipelineWorkspaces}

\* what captureActiveFilesContent returns for Workspace1.files
SampleOutcomes == {captureActiveFilesContent(PipelineActive)}

\* the server after start-up: nothing invoked, logs/ holds no session file
InitServer(slots, keys) ==
  /\ calls = [i \in slots |-> IdleCall]
  /\ files = [k \in keys |-> NoFile]
  /\ lastPersist = [k \in keys |-> [some |-> FALSE]]
  /\ returned = NoReturn

Init ==
  /\ variant \in {"persist", "direct", "zoom"}
  /\ InitServer(Slots, SessionKeys)
  /\ useMockAPI = FALSE
  /\ tArgs = << >>
  /\ tTicket = NoTicket
  /\ tBy = "none"

\* ------------------------------------------------------------------------
\* request_help
\* ------------------------------------------------------------------------

\* execute returns: the host receives the result at once
Finish(call, result) == [call EXCEPT !.pc = "done", !.result = result]

\* the slot after call c1 took its step: a finished invocation leaves nothing
\* behind but its result, which `returned` shows as it is handed over
Step(i, c1) ==
  IF c1.pc = "done"
    THEN /\ calls' = [calls EXCEPT ![i] = [IdleCall EXCEPT !.pc = "done", !.tool = c1.tool]]
         /\ returned' = [slot |-> i, call |-> c1]
    ELSE /\ calls' = [calls EXCEPT ![i] = c1]
         /\ returned' = NoReturn

\* a catch block that reports the error alone
ErrorTextBare(sessionId, message) == "Error: " \o message

\* the string the catch block of execute builds
ErrorText(sessionId, message) ==
  IF variant = "zoom" THEN ZoomErrorMessage(sessionId, message)
  ELSE UserErrorMessage(sessionId, message)

\* a catch block that submits again after a network failure
CaughtResubmitting(call, source, message) ==
  IF source = "network"
    THEN [call EXCEPT !.posts = @ + 1, !.pc = "fetch"]
    ELSE Finish(call, [ kind |-> "error", source |-> source, thrown |-> message,
                        text |-> ErrorText(call.sessionId, message) ])

\* the catch block of execute: the error becomes the returned string
Caught(call, source, message) ==
  Finish(call, [ kind |-> "error", source |-> source, thrown |-> message,
                 text |-> ErrorText(call.sessionId, message) ])

\* abstract length of a JSON text: a defaulted section (null, []) is shorter
\* than a supplied one
ValueSize(v) ==
  IF "t" \in DOMAIN v /\ (v.t = "null" \/ (v.t = "array" /\ Len(v.items) = 0))
    THEN 1 ELSE 2

RECURSIVE TextSize(_)
TextSize(toks) ==
  IF Len(toks) = 0 THEN 0
  ELSE (IF toks[1].tok = "member" THEN ValueSize(toks[1].val) ELSE 1)
       + TextSize(Tail(toks))

\* open(path, 'w'): creates the file or truncates it to length 0
Truncate(file) == [exists |-> TRUE, toks |-> << >>, junk |-> 0]

\* write(fd, data) at offset 0: bytes of the file beyond the data stay
WriteAt(file, data) ==
  LET old == TextSize(file.toks) + file.junk
      new == TextSize(data)
  IN [exists |-> TRUE, toks |-> data, junk |-> IF old > new THEN old - new ELSE 0]

\* sendHelpRequestToAPI up to its await: the ticket is built from what execute
\* passed and fetch(endpoint, {method: 'POST', body}) is called once
IssuePost(call) ==
  [call EXCEPT
     !.ticket = IF variant = "direct" THEN transformArgsToTicket(call.helpContext)
                ELSE transformHelpContextToTicket(call.helpContext),
     !.posts = @ + 1, !.pc = "fetch"]

\* the persisting variant reaches fs.writeJson with the compiled context
BeginWrite(call, activeFilesContent) ==
  [call EXCEPT !.helpContext =
                 CompileHelpContext(call.args, call.sessionId, call.timestamp,
                                    call.workspaceState, activeFilesContent),
               !.pc = "write_open"]

\* slot i holds the i-th invocation the host starts
NextToStart(i) ==
  /\ calls[i].pc = "idle"
  /\ \A j \in DOMAIN calls : j < i => calls[j].pc # "idle"

\* z.enum(['system', 'user', 'assistant', 'tool'])
Roles == {"system", "user", "assistant", "tool"}

\* the first required part of HelpRequestSchema the request fails on ("ok" if
\* none); the schema of the single-file server requires `session` as well
SchemaViolation(raw) ==
  IF variant = "zoom" /\ "session" \notin DOMAIN raw THEN "session"
  ELSE IF "conversation" \notin DOMAIN raw THEN "conversation"
  ELSE IF \E m \in 1..Len(raw.conversation.messages) :
            raw.conversation.messages[m].role \notin Roles THEN "role"
  ELSE IF ~("issue" \in DOMAIN raw /\ "description" \in DOMAIN raw.issue)
    THEN "description"
  ELSE "ok"

\* a schema whose Message.role is any string
AcceptedBySchemaAnyRole(raw) == SchemaViolation(raw) \in {"ok", "role"}

\* HelpRequestSchema.parse succeeds
AcceptedBySchema(raw) == SchemaViolation(raw) = "ok"

\* the host validates the request against `parameters` and refuses it:
\* execute is not called
RejectRequest(i, raw) ==
  /\ NextToStart(i)
  /\ ~AcceptedBySchema(raw)
  /\ Step(i, Finish([calls[i] EXCEPT !.tool = "request_help",
                                     !.violation = SchemaViolation(raw)],
                    [kind |-> "invalid", violation |-> SchemaViolation(raw)]))
  /\ UNCHANGED << variant, useMockAPI, files, lastPersist, ticketVars >>

\* what the host hands to execute is the schema's output: the modular
\* HelpRequestSchema declares no `session`, and z.object drops undeclared keys
ValidatedArgs(raw) ==
  IF variant = "zoom" THEN raw
  ELSE [k \in DOMAIN raw \ {"session"} |-> raw[k]]

\* the host validates the request; execute(args) up to its first await
StartRequestHelp(i, raw) ==
  /\ NextToStart(i)
  /\ AcceptedBySchema(raw)
  /\ LET args == ValidatedArgs(raw)
         c0 == [calls[i] EXCEPT
                  !.tool = "request_help", !.args = args,
                  !.violation = SchemaViolation(raw),
                  !.sessionId = ResolveSessionId(args, GenId(i)),
                  !.timestamp = ResolveTimestamp(args, Now)]
         ws == Get(args, "workspace")
     IN Step(i, IF variant = "direct"
                  THEN IssuePost([c0 EXCEPT !.helpContext =
                         ArgsWithSession(args, c0.sessionId, c0.timestamp)])
                ELSE IF Truthy(ws) /\ Len(ws.rootPath) > 0
                  THEN [c0 EXCEPT !.pc = "scan"]
                ELSE IF Truthy(ws)
                  THEN [c0 EXCEPT !.pc = "sample"]
                ELSE BeginWrite(c0, [t |-> "obj"]))
  /\ UNCHANGED << variant, useMockAPI, files, lastPersist, ticketVars >>

\* an execute that gives up when the workspace could not be scanned
AfterScanOrGiveUp(c, state) ==
  IF state = Null THEN Caught(c, "scan", "Workspace context unavailable")
  ELSE [c EXCEPT !.workspaceState = state, !.pc = "sample"]

\* the continuation of await captureWorkspaceState: the result, null
\* included, is kept and execute goes on to the active files
AfterScan(c, state) == [c EXCEPT !.workspaceState = state, !.pc = "sample"]

\* await captureWorkspaceState(rootPath) settles (it never rejects)
ScanSettle(i, state) ==
  /\ calls[i].pc = "scan"
  /\ Step(i, AfterScan(calls[i], state))
  /\ UNCHANGED << variant, useMockAPI, files, lastPersist, ticketVars >>

\* await captureActiveFilesContent(paths, rootPath) settles
SampleSettle(i, content) ==
  /\ calls[i].pc = "sample"
  /\ Step(i, BeginWrite(calls[i], content))
  /\ UNCHANGED << variant, useMockAPI, files, lastPersist, ticketVars >>

\* fs.writeJson, first half: the session file is opened for writing
WriteOpen(i) ==
  /\ calls[i].pc = "write_open"
  /\ files' = [files EXCEPT ![calls[i].sessionId] = Truncate(@)]
  /\ lastPersist' = [lastPersist EXCEPT ![calls[i].sessionId] =
                       IF @.some THEN [@ EXCEPT !.quiet = FALSE] ELSE @]
  /\ Step(i, [calls[i] EXCEPT !.pc = "write_data"])
  /\ UNCHANGED << variant, useMockAPI, ticketVars >>

\* fs.writeJson, second half: the text is written and the promise resolves;
\* execute goes on to sendHelpRequestToAPI, which calls fetch (the
\* single-file server returns the meeting link instead)
WriteData(i) ==
  /\ calls[i].pc = "write_data"
  /\ files' = [files EXCEPT ![calls[i].sessionId] =
                 WriteAt(@, JSONStringify(calls[i].helpContext))]
  /\ lastPersist' = [lastPersist EXCEPT ![calls[i].sessionId] =
                       [some |-> TRUE, rec |-> calls[i].helpContext, quiet |-> TRUE]]
  /\ Step(i, IF variant = "zoom"
               THEN Finish([calls[i] EXCEPT !.wrote = TRUE],
                           [ kind |-> "success",
                             text |-> ZoomSuccessMessage(calls[i].sessionId) ])
               ELSE IssuePost([calls[i] EXCEPT !.wrote = TRUE]))
  /\ UNCHANGED << variant, useMockAPI, ticketVars >>

WriteErrorMessage == "ENOSPC: no space left on device, write"

\* an execute that goes on to dispatch although the write was rejected
DispatchAnyway(c) == IssuePost(c)

\* the rejection of fs.writeJson leaves the try block for the catch block
AfterWriteFailure(c) == Caught(c, "write", WriteErrorMessage)

\* fs.writeJson rejects: at the open (the file is untouched) or at the
\* write (the file stays as the open left it)
WriteFail(i) ==
  /\ calls[i].pc \in {"write_open", "write_data"}
  /\ Step(i, AfterWriteFailure(calls[i]))
  /\ UNCHANGED << variant, useMockAPI, files, lastPersist, ticketVars >>

NetworkErrorMessage == "fetch failed"

\* the Response fetch resolves with: its body has not been read yet
NewResponse(reply) ==
  [ status |-> reply.status, statusText |-> reply.statusText,
    body |-> reply.body, bodyUsed |-> FALSE ]

\* a dispatcher that discards the session file of the request it handled
StoreDroppedOnDispatch(store, c) == [store EXCEPT ![c.sessionId] = NoFile]

\* logs/ after a step of sendHelpRequestToAPI or of what follows it in
\* execute: neither writes a file
StoreAfterDispatch(store, c) == store

\* await fetch(...) settles: it rejects (n = 0) or resolves with a Response,
\* whose body sendHelpRequestToAPI then starts to read as JSON.  Of the
\* locals only sessionId and the response are read from here on, and the
\* request body has left.
FetchSettle(i, n) ==
  /\ calls[i].pc = "fetch"
  /\ Step(i, IF n = 0 THEN Caught(calls[i], "network", NetworkErrorMessage)
             ELSE [calls[i] EXCEPT !.response = NewResponse(Replies[n]),
                                   !.args = << >>, !.helpContext = << >>,
                                   !.ticket = NoTicket,
                                   !.workspaceState = Null, !.pc = "json"])
  /\ files' = StoreAfterDispatch(files, calls[i])
  /\ UNCHANGED << variant, useMockAPI, lastPersist, ticketVars >>

\* reading the body (json() or text()) marks the Response's body as used
ConsumeBody(response) == [response EXCEPT !.bodyUsed = TRUE]

\* errorDetails that leaves the parsed error body out
ErrorDetailsStatusOnly(response, errorBody) == StatusLine(response)

\* errorDetails once the error body was read as JSON
ErrorDetailsJson(response, errorBody) ==
  StatusLine(response) \o "\n" \o ApiErrorMarker \o " " \o JSONStringifyPretty(errorBody)

\* errorDetails once the error body was read as text
ErrorDetailsText(response, errorText) ==
  StatusLine(response)
    \o (IF Len(errorText) > 0 THEN "\n" \o ApiErrorMarker \o " " \o errorText ELSE "")

\* the continuation of await response.json(), for a 2xx reply (line 90) or
\* not (line 79)
AfterJson(c) ==
  LET r == ResponseJson(c.response)
      c1 == [c EXCEPT !.response = ConsumeBody(@)]
  IN IF ResponseOk(c.response)
       THEN IF r.ok
              THEN Finish(c1, [ kind |-> "success",
                     api |-> NormalizeApiResult(r.value, c.sessionId),
                     text |-> UserSuccessMessage(c.sessionId,
                                NormalizeApiResult(r.value, c.sessionId)) ])
              ELSE Caught(c1, "parse", r.message)
       ELSE IF r.ok
              THEN Caught(c1, "api", ErrorDetailsJson(c.response, r.value))
              ELSE [c1 EXCEPT !.pc = "text"]

JsonSettle(i) ==
  /\ calls[i].pc = "json"
  /\ Step(i, AfterJson(calls[i]))
  /\ files' = StoreAfterDispatch(files, calls[i])
  /\ UNCHANGED << variant, useMockAPI, lastPersist, ticketVars >>

\* a continuation that never gets past the reading of the body
StillReading(c) == c

\* the continuation of await response.text(), inside catch (parseError)
AfterText(c) ==
  LET r == ResponseText(c.response)
      c1 == [c EXCEPT !.response = ConsumeBody(@)]
  IN IF r.ok THEN Caught(c1, "api", ErrorDetailsText(c.response, r.value))
     ELSE Caught(c1, "body", r.message)

TextSettle(i) ==
  /\ calls[i].pc = "text"
  /\ Step(i, AfterText(calls[i]))
  /\ files' = StoreAfterDispatch(files, calls[i])
  /\ UNCHANGED << variant, useMockAPI, lastPersist, ticketVars >>

\* ------------------------------------------------------------------------
\* get_help_session
\* ------------------------------------------------------------------------

NotFoundResult(sessionId) ==
  [ kind |-> "not_found", success |-> FALSE, error |-> "Session not found",
    sessionId |-> sessionId ]

FoundResult(sessionId, sessionData) ==
  [kind |-> "found", success |-> TRUE, sessionId |-> sessionId, data |-> sessionData]

FailedResult(sessionId, message) ==
  [ kind |-> "failed", success |-> FALSE, sessionId |-> sessionId,
    error |-> "Failed to retrieve session data", details |-> message ]

\* fs.readJson(path) on the file as it is when read
ReadJson(file) ==
  IF WellFormedJSON(file.toks) /\ file.junk = 0
    THEN [ok |-> TRUE, value |-> JSONParse(file.toks)]
    ELSE [ok |-> FALSE, message |-> ParseErrorMessage]

\* execute(args) up to await fs.pathExists
StartGet(i, sessionId) ==
  /\ NextToStart(i)
  /\ Step(i, [calls[i] EXCEPT !.tool = "get_help_session",
                              !.sessionId = sessionId, !.pc = "exists"])
  /\ UNCHANGED << variant, useMockAPI, files, lastPersist, ticketVars >>

\* the continuation of await fs.pathExists (which never rejects)
AfterExists(c) ==
  IF files[c.sessionId].exists THEN [c EXCEPT !.pc = "read"]
  ELSE Finish([c EXCEPT !.everPersisted = lastPersist[c.sessionId].some],
              NotFoundResult(c.sessionId))

ExistsSettle(i) ==
  /\ calls[i].pc = "exists"
  /\ Step(i, AfterExists(calls[i]))
  /\ UNCHANGED << variant, useMockAPI, files, lastPersist, ticketVars >>

\* the continuation of await fs.readJson, or the catch block if it rejected
AfterRead(c) ==
  LET r == ReadJson(files[c.sessionId])
      c1 == [c EXCEPT !.saw = lastPersist[c.sessionId],
                      !.everPersisted = lastPersist[c.sessionId].some]
  IN IF r.ok THEN Finish(c1, FoundResult(c.sessionId, r.value))
     ELSE Finish(c1, FailedResult(c.sessionId, r.message))

ReadSettle(i) ==
  /\ calls[i].pc = "read"
  /\ Step(i, AfterRead(calls[i]))
  /\ UNCHANGED << variant, useMockAPI, files, lastPersist, ticketVars >>

\* ------------------------------------------------------------------------
\* Specification of the server
\* ------------------------------------------------------------------------

AllRequests == PipelineRequests \cup InvalidRequests

Next ==
  \/ \E i \in DOMAIN calls, raw \in AllRequests : RejectRequest(i, raw)
  \/ \E i \in DOMAIN calls, raw \in AllRequests : StartRequestHelp(i, raw)
  \/ \E i \in DOMAIN calls, state \in ScanOutcomes : ScanSettle(i, state)
  \/ \E i \in DOMAIN calls, content \in SampleOutcomes : SampleSettle(i, content)
  \/ \E i \in DOMAIN calls : WriteOpen(i)
  \/ \E i \in DOMAIN calls : WriteData(i)
  \/ \E i \in DOMAIN calls : WriteFail(i)
  \/ \E i \in DOMAIN calls, n \in 0..Len(Replies) : FetchSettle(i, n)
  \/ \E i \in DOMAIN calls : JsonSettle(i)
  \/ \E i \in DOMAIN calls : TextSettle(i)
  \/ \E i \in DOMAIN calls, k \in DOMAIN files : StartGet(i, k)
  \/ \E i \in DOMAIN calls : ExistsSettle(i)
  \/ \E i \in DOMAIN calls : ReadSettle(i)

Spec == Init /\ [][Next]_vars

\* ------------------------------------------------------------------------
\* Specification of the server when invocations do not overlap
\* ------------------------------------------------------------------------

\* invocations of this specification
SerialCalls == 2

CallSlots == 1..SerialCalls

\* no invocation is under way: the host may start the next one
Quiet == \A j \in DOMAIN calls : calls[j].pc \in {"idle", "done"}

InitCall ==
  /\ variant \in {"persist", "direct", "zoom"}
  /\ InitServer(CallSlots, SessionKeys)
  /\ useMockAPI \in BOOLEAN
  /\ tArgs = << >>
  /\ tTicket = NoTicket
  /\ tBy = "none"

NextCall ==
  \/ Quiet /\ \E i \in DOMAIN calls, raw \in AllRequests : RejectRequest(i, raw)
  \/ Quiet /\ \E i \in DOMAIN calls, raw \in AllRequests : StartRequestHelp(i, raw)
  \/ \E i \in DOMAIN calls, state \in ScanOutcomes : ScanSettle(i, state)
  \/ \E i \in DOMAIN calls, content \in SampleOutcomes : SampleSettle(i, content)
  \/ \E i \in DOMAIN calls : WriteOpen(i)
  \/ \E i \in DOMAIN calls : WriteData(i)
  \/ \E i \in DOMAIN calls : WriteFail(i)
  \/ \E i \in DOMAIN calls, n \in 0..Len(Replies) : FetchSettle(i, n)
  \/ \E i \in DOMAIN calls : JsonSettle(i)
  \/ \E i \in DOMAIN calls : TextSettle(i)
  \/ Quiet /\ \E i \in DOMAIN calls, k \in DOMAIN files : StartGet(i, k)
  \/ \E i \in DOMAIN calls : ExistsSettle(i)
  \/ \E i \in DOMAIN calls : ReadSettle(i)

SpecCall == InitCall /\ [][NextCall]_vars

\* a step in which an I/O operation of invocation i completes or fails: the
\* scan, the sampling, either half of the write, the POST, the reading of
\* the body
IOSettles(i) ==
  \/ \E state \in ScanOutcomes : ScanSettle(i, state)
  \/ \E content \in SampleOutcomes : SampleSettle(i, content)
  \/ WriteOpen(i)
  \/ WriteData(i)
  \/ WriteFail(i)
  \/ \E n \in 0..Len(Replies) : FetchSettle(i, n)
  \/ JsonSettle(i)
  \/ TextSettle(i)

\* every I/O operation invocation i has started completes or fails; the
\* host is under no obligation to start an invocation
IOCompletes(i) == WF_vars(IOSettles(i))

SpecCallLive == InitCall /\ [][NextCall]_vars /\ \A i \in CallSlots : IOCompletes(i)

\* ------------------------------------------------------------------------
\* Specification of the session store under overlapping invocations: the
\* single-file server, whose requests carry the caller's session id, and
\* three invocations (two writers of records of different length, a reader)
\* ------------------------------------------------------------------------

StoreRequests ==
  { MakeArgs(SuppliedSession, "Build fails with urgent error", Undefined, Undefined, FALSE),
    MakeArgs(SuppliedSession, "bug", Undefined,
             [t |-> "obj", errors |-> << ErrorDetail1 >>], TRUE) }

InitStore ==
  /\ variant = "zoom"
  /\ InitServer(StoreSlots, StoreKeys)
  /\ useMockAPI = FALSE
  /\ tArgs = << >>
  /\ tTicket = NoTicket
  /\ tBy = "none"

NextStore ==
  \/ \E i \in DOMAIN calls, args \in StoreRequests : StartRequestHelp(i, args)
  \/ \E i \in DOMAIN calls : WriteOpen(i)
  \/ \E i \in DOMAIN calls : WriteData(i)
  \/ \E i \in DOMAIN calls : WriteFail(i)
  \/ \E i \in DOMAIN calls, k \in DOMAIN files : StartGet(i, k)
  \/ \E i \in DOMAIN calls : ExistsSettle(i)
  \/ \E i \in DOMAIN calls : ReadSettle(i)

SpecStore == InitStore /\ [][NextStore]_vars

\* ------------------------------------------------------------------------
\* Specification of the ticket transformers alone, over every validated input
\* ------------------------------------------------------------------------

\* the schema's output for the two dispatching variants (no `session`)
TicketArgs ==
  { MakeArgs(Undefined, d, w, g, full) :
      d \in Descriptions \cup {""}, w \in WorkspaceChoices,
      g \in DiagnosticsChoices, full \in BOOLEAN }

InitTicket ==
  /\ variant \in {"persist", "direct"}
  /\ InitServer(Slots, SessionKeys)
  /\ useMockAPI = FALSE
  /\ tArgs \in TicketArgs
  /\ tTicket = NoTicket
  /\ tBy = "none"

\* the persisting variant: execute compiles the context, sendHelpRequestToAPI
\* transforms it
TransformContext(state) ==
  /\ tBy = "none"
  /\ variant = "persist"
  /\ Truthy(Get(tArgs, "workspace")) \/ state = Null
  /\ tTicket' = transformHelpContextToTicket(
                  CompileHelpContext(tArgs, ResolveSessionId(tArgs, GenId(1)),
                                     ResolveTimestamp(tArgs, Now), state, [t |-> "obj"]))
  /\ tBy' = "transformHelpContextToTicket"
  /\ UNCHANGED << variant, useMockAPI, calls, files, lastPersist, returned, tArgs >>

\* the direct variant: sendHelpRequestToAPI transforms the arguments
TransformArgs ==
  /\ tBy = "none"
  /\ variant = "direct"
  /\ tTicket' = transformArgsToTicket(
                  ArgsWithSession(tArgs, ResolveSessionId(tArgs, GenId(1)),
                                  ResolveTimestamp(tArgs, Now)))
  /\ tBy' = "transformArgsToTicket"
  /\ UNCHANGED << variant, useMockAPI, calls, files, lastPersist, returned, tArgs >>

NextTicket ==
  \/ \E state \in ScanOutcomes : TransformContext(state)
  \/ TransformArgs

SpecTicket == InitTicket /\ [][NextTicket]_vars

\* ------------------------------------------------------------------------
\* Specification of the workspace scanner and the content sampler alone
\* ------------------------------------------------------------------------

\* most files glob lists
MaxFiles == 22

\* modification times are (k * stride) % MtimeMod for the k-th file listed
MaxStride == 3
MtimeMod == 7

\* fs.stat fails on every f-th file listed, f up to MaxFailEvery (0: on none)
MaxFailEvery == 3

Extensions == << ".js", ".md", "" >>

\* a workspace in which glob lists n files
MakeWorkspace(root, n, stride, f, newest) ==
  [ kind |-> "workspace",
    root |-> root,
    files |-> [k \in 1..n |->
                 [ file |-> "f" \o NumToString(k),
                   ext |-> Extensions[(k % 3) + 1],
                   mtime |-> IF k = newest THEN MtimeMod ELSE (k * stride) % MtimeMod,
                   stat |-> (f = 0 \/ k % f # 0) ]] ]

\* which file was modified after all the others (0: none stands out): the
\* first, or one at either side of the cut after StatSample files
NewestChoices(n) ==
  {0} \cup {k \in {1, StatSample, StatSample + 1, StatSample + 2} : k <= n}

ScanInputs ==
  UNION { { MakeWorkspace("ok", n, stride, f, newest) :
              stride \in 1..MaxStride, f \in 0..MaxFailEvery,
              newest \in NewestChoices(n) } : n \in 0..MaxFiles }
  \cup { MakeWorkspace("unreadable", n, 1, 0, 0) : n \in 0..MaxFiles }
  \cup { MakeWorkspace("absent", 0, 1, 0, 0) }

\* longest list of active files
MaxPaths == 6

\* the k-th path is of kind FileKinds[(k * stride + shift) % 8 + 1]
MaxKindStride == 3

FileKinds ==
  << "edge", "small", "big", "missing", "long", "statfail", "huge", "readfail" >>

TextLine == "0123456789\n"

\* what the file system answers for a path of each kind
FileOfKind(path, kind) ==
  CASE kind = "missing" ->
         [SmallFile(path) EXCEPT !.exists = FALSE]
    [] kind = "statfail" ->
         [SmallFile(path) EXCEPT !.stat = FALSE]
    [] kind = "readfail" ->
         [SmallFile(path) EXCEPT !.read = FALSE]
    [] kind = "small" ->
         SmallFile(path)
    [] kind = "long" ->
         [SmallFile(path) EXCEPT !.size = MaxContentLength + 2,
                                 !.content = Repeat(TextLine, 182)]
    [] kind = "edge" ->
         [SmallFile(path) EXCEPT !.size = MaxFileSize - 1,
                                 !.content = Repeat(TextLine, 4545) \o "abcd"]
    [] kind = "big" ->
         [SmallFile(path) EXCEPT !.size = MaxFileSize,
                                 !.content = Repeat(TextLine, 4545) \o "abcde"]
    [] kind = "huge" ->
         [SmallFile(path) EXCEPT !.size = MaxFileSize + 1,
                                 !.content = Repeat(TextLine, 4546)]

MakeActive(n, shift, stride) ==
  [ kind |-> "active",
    isArray |-> TRUE,
    paths |-> [k \in 1..n |->
                 FileOfKind("p" \o NumToString(k),
                            FileKinds[((k * stride + shift) % Len(FileKinds)) + 1])] ]

\* activeFiles undefined, or not an array
NoActiveFiles == [kind |-> "active", isArray |-> FALSE, paths |-> << >>]

SampleInputs ==
  { MakeActive(n, shift, stride) :
      n \in 0..MaxPaths, shift \in 0..(Len(FileKinds) - 1), stride \in 1..MaxKindStride }
  \cup { NoActiveFiles }

WorkspaceInputs == ScanInputs \cup SampleInputs

InitWorkspace ==
  /\ variant = "persist"
  /\ InitServer(Slots, SessionKeys)
  /\ useMockAPI = FALSE
  /\ tArgs \in WorkspaceInputs
  /\ tTicket = NoTicket
  /\ tBy = "none"

\* execute awaits captureWorkspaceState(args.workspace.rootPath)
ScanWorkspace ==
  /\ tBy = "none"
  /\ tArgs.kind = "workspace"
  /\ tTicket' = captureWorkspaceState(tArgs)
  /\ tBy' = "captureWorkspaceState"
  /\ UNCHANGED << variant, useMockAPI, calls, files, lastPersist, returned, tArgs >>

\* execute awaits captureActiveFilesContent(filePaths, rootPath)
SampleActiveFiles ==
  /\ tBy = "none"
  /\ tArgs.kind = "active"
  /\ tTicket' = [ content |-> captureActiveFilesContent(tArgs),
                  probed |-> Probed(tArgs) ]
  /\ tBy' = "captureActiveFilesContent"
  /\ UNCHANGED << variant, useMockAPI, calls, files, lastPersist, returned, tArgs >>

NextWorkspace ==
  \/ ScanWorkspace
  \/ SampleActiveFiles

SpecWorkspace == InitWorkspace /\ [][NextWorkspace]_vars

\* ------------------------------------------------------------------------
\* Specification of the normalisation of the endpoint's answer alone
\* ------------------------------------------------------------------------

\* a member of a JSON object, or none when the endpoint leaves the key out
OptMember(k, v) == IF v = "absent" THEN << >> ELSE << << k, JsString(v) >> >>

\* what the endpoint may put under a key of the nested ticket, of the top
\* level, and under message
NestedChoices == {"absent", "", "nested"}
TopChoices == {"absent", "top"}
MessageChoices == {"absent", "", "queued"}

\* the nested ticket objects: none, or one with any of id, status, priority
NestedTickets ==
  {<< >>} \cup
  { << << "ticket", JsObject(OptMember("id", a) \o OptMember("status", b)
                               \o OptMember("priority", c)) >> >> :
      a \in NestedChoices, b \in NestedChoices, c \in NestedChoices }

\* the parsed JSON bodies of 2xx answers
ApiResults ==
  { [ kind |-> "result",
      value |-> JsObject(t \o OptMember("id", a) \o OptMember("status", b)
                           \o OptMember("priority", c)
                           \o << << "ticketUrl", JsString("https://t/1") >> >>
                           \o OptMember("message", m)) ] :
      t \in NestedTickets, a \in TopChoices, b \in TopChoices, c \in TopChoices,
      m \in MessageChoices }

InitReply ==
  /\ variant \in {"persist", "direct"}
  /\ InitServer(Slots, SessionKeys)
  /\ useMockAPI = FALSE
  /\ tArgs \in ApiResults
  /\ tTicket = NoTicket
  /\ tBy = "none"

\* sendHelpRequestToAPI after `const result = await response.json()`
NormalizeReply ==
  /\ tBy = "none"
  /\ tTicket' = NormalizeApiResult(tArgs.value, GenId(1))
  /\ tBy' = "NormalizeApiResult"
  /\ UNCHANGED << variant, useMockAPI, calls, files, lastPersist, returned, tArgs >>

NextReply ==
  \/ NormalizeReply

SpecReply == InitReply /\ [][NextReply]_vars

\* ------------------------------------------------------------------------
\* Properties
\* ------------------------------------------------------------------------

\* s contains word, whatever the case of its letters
MentionsAnyCase(s, word) ==
  \E i \in 1..Len(s) :
    /\ i + Len(word) - 1 <= Len(s)
    /\ toLowerCase(SubSeq(s, i, i + Len(word) - 1)) = word

\* the issue description of the input asks for urgency
KeywordGiven ==
  \/ MentionsAnyCase(tArgs.issue.description, "urgent")
  \/ MentionsAnyCase(tArgs.issue.description, "critical")

\* diagnostics.errors of the input has at least one entry
ErrorsGiven == ErrorCount(Get(tArgs, "diagnostics")) > 0

\* tool has just returned
HasReturned(tool) == returned.slot # 0 /\ returned.call.tool = tool

\* request_help has just returned after the endpoint answered with a non-2xx status
ReturnedNon2xx ==
  /\ HasReturned("request_help")
  /\ returned.call.response.status # 0
  /\ ~(returned.call.response.status \in 200..299)

\* C1: every ticket a transformer builds (transformHelpContextToTicket or
\* transformArgsToTicket) from a validated input has a title of at least 5
\* characters and a description of at least 10 characters, however short the
\* issue description is.
C1_TicketMinimumLengths ==
  tBy # "none" => Len(tTicket.title) >= 5 /\ Len(tTicket.description) >= 10

\* C2: when the issue description contains "urgent" or "critical" in any
\* letter case, transformHelpContextToTicket gives priority 'urgent', with or
\* without diagnostics errors.
C2_KeywordMeansUrgent ==
  (tBy = "transformHelpContextToTicket" /\ KeywordGiven) => tTicket.priority = "urgent"

C2_Witness ==
  /\ tBy = "transformHelpContextToTicket"
  /\ tArgs.issue.description = "xcRiTiCaLx"
  /\ ErrorsGiven
  /\ tTicket.priority = "urgent"

\* C3: without a keyword in the issue description, the ticket priority is
\* 'high' when diagnostics.errors has at least one entry and 'medium' when it
\* has none, whichever transformer builds the ticket.
C3_ErrorsMeanHigh ==
  (tBy # "none" /\ ~KeywordGiven) =>
    tTicket.priority = (IF ErrorsGiven THEN "high" ELSE "medium")

\* C4: a get_help_session(S) that returns while a request_help invocation is
\* writing the session file of S returns 'Session not found' or the record,
\* never a failure to read or parse the file.
C4_GetNeverSeesPartialRecord ==
  ( /\ HasReturned("get_help_session")
    /\ \E j \in DOMAIN calls :
         /\ calls[j].tool = "request_help"
         /\ calls[j].pc = "write_data"
         /\ calls[j].sessionId = returned.call.sessionId )
  => returned.call.result.kind \in {"not_found", "found"}

\* C5: once a record was persisted under S and no write to S began after it,
\* get_help_session(S) returns success with data equal to that record.
C5_RoundTrip ==
  (HasReturned("get_help_session") /\ returned.call.saw.some /\ returned.call.saw.quiet)
  => /\ returned.call.result.kind = "found"
     /\ returned.call.result.data = returned.call.saw.rec

\* C6: get_help_session of an id under which no record was ever persisted
\* returns the 'Session not found' result (and returns it, never throwing).
C6_UnknownIdNotFound ==
  (HasReturned("get_help_session") /\ ~returned.call.everPersisted)
  => /\ returned.call.result.kind = "not_found"
     /\ returned.call.result.success = FALSE
     /\ returned.call.result.error = "Session not found"

C8_Non2xxIsAnError ==
  ReturnedNon2xx =>
    /\ returned.call.result.kind = "error"
    /\ returned.call.result.text =
         UserErrorMessage(returned.call.sessionId, returned.call.result.thrown)
    /\ ~includes(returned.call.result.text, "HUMAN HELP REQUESTED")

C8_Witness ==
  /\ ReturnedNon2xx
  /\ returned.call.response.status = 404
  /\ returned.call.result.kind = "error"

\* C9: after a non-2xx answer with a JSON body, the thrown error and the
\* string request_help returns both contain the HTTP status and the content
\* of the payload.
C9_JsonErrorBodyIsReported ==
  (ReturnedNon2xx /\ returned.call.response.body.kind = "json") =>
    LET status == NumToString(returned.call.response.status)
        payload == returned.call.response.body.value.members
        r == returned.call.result
    IN /\ r.kind = "error"
       /\ includes(r.thrown, status) /\ includes(r.text, status)
       /\ \A m \in 1..Len(payload) :
            /\ includes(r.thrown, payload[m][2].s)
            /\ includes(r.text, payload[m][2].s)

C9_Witness ==
  /\ ReturnedNon2xx
  /\ returned.call.response.status = 500
  /\ includes(returned.call.result.thrown, "db down")
  /\ includes(returned.call.result.text, "db down")

\* C10: after a non-2xx answer whose body is not JSON, the thrown error
\* carries the HTTP status and the raw text of the body.
C10_TextErrorBodyIsReported ==
  (ReturnedNon2xx /\ returned.call.response.body.kind = "text") =>
    /\ returned.call.result.kind = "error"
    /\ includes(returned.call.result.thrown, NumToString(returned.call.response.status))
    /\ includes(returned.call.result.thrown, returned.call.response.body.text)

\* C11: whatever fails inside request_help after validation (the write of the
\* session file, the network, a non-2xx answer, an answer that cannot be
\* read), execute returns one error string, which names the session id and
\* tells the user to stop troubleshooting and to retry or contact support.
C11_FailuresBecomeOneErrorString ==
  (HasReturned("request_help") /\ returned.call.violation = "ok") =>
    LET r == returned.call.result IN
    /\ r.kind \in {"success", "error"}
    /\ r.kind = "error" =>
         /\ r.source \in {"write", "network", "api", "body", "parse"}
         /\ Len(returned.call.sessionId) > 0
         /\ includes(r.text, returned.call.sessionId)
         /\ includes(r.text, "DO NOT CONTINUE TROUBLESHOOTING")
         /\ includes(r.text, "try again or contact support")

C11_Witness ==
  /\ HasReturned("request_help")
  /\ returned.call.result.kind = "error"
  /\ returned.call.result.source = "write"
  /\ includes(returned.call.result.text, "Session ID: " \o returned.call.sessionId)

\* C12: a request that violates HelpRequestSchema (no conversation, no
\* issue.description, a role outside the enumeration) is refused before any
\* I/O: the invocation never waits on a scan, a file, the session file or the
\* endpoint, and it returns with no write and no POST made.
C12_InvalidInputDoesNoIO ==
  /\ \A i \in DOMAIN calls : calls[i].violation = "ok"
  /\ (HasReturned("request_help") /\ returned.call.violation # "ok") =>
       /\ returned.call.result.kind = "invalid"
       /\ returned.call.posts = 0
       /\ ~returned.call.wrote

C12_Witness ==
  /\ HasReturned("request_help")
  /\ returned.call.violation = "role"
  /\ returned.call.result.kind = "invalid"
  /\ \A k \in DOMAIN files : ~files[k].exists

\* C13: captureWorkspaceState answers a missing or unreadable workspace with
\* null and never throws; the invocation then goes on: it samples the active
\* files, persists the record with workspace.state null, and dispatches.  No
\* step from the scan or the sampling ends the invocation, and once the
\* record is written the persisting variant has issued its POST.
C13_ScanFailureIsNotFatal ==
  /\ [](\A i \in DOMAIN calls :
          (calls[i].pc \in {"write_open", "write_data"}
             /\ Truthy(Get(calls[i].args, "workspace")))
          => calls[i].helpContext.workspace.state = calls[i].workspaceState)
  /\ [][\A i \in DOMAIN calls :
          /\ (calls[i].pc = "scan" /\ calls'[i] # calls[i])
               => (calls'[i].pc = "sample" /\ returned' = NoReturn)
          /\ (calls[i].pc = "sample" /\ calls'[i] # calls[i])
               => (calls'[i].pc = "write_open" /\ returned' = NoReturn)
          /\ (calls[i].pc = "write_data" /\ calls'[i].pc = "fetch")
               => (calls'[i].posts = 1 /\ calls'[i].wrote)]_vars

C13_Witness ==
  /\ variant = "persist"
  /\ HasReturned("request_help")
  /\ returned.call.result.kind = "success"
  /\ returned.call.wrote /\ returned.call.posts = 1
  /\ LET rec == lastPersist[returned.call.sessionId].rec
     IN Truthy(rec.workspace) /\ rec.workspace.state = Null

\* the files of a scanned workspace that fs.stat was asked about and answered
StatOk(ws) ==
  {k \in 1..Min(StatSample, Len(ws.files)) : ws.files[k].stat}

\* the modification time of the file called name
MtimeOf(ws, name) ==
  ws.files[CHOOSE k \in StatOk(ws) : ws.files[k].file = name].mtime

HasScanned == tBy = "captureWorkspaceState" /\ tTicket # Null

\* C17: in every scan result recentFiles has at most 10 entries, each a file
\* that was successfully stat'd, and they come in order of non-increasing
\* modification time.
C17_RecentFilesNewestFirst ==
  HasScanned =>
    LET r == tTicket.recentFiles IN
    /\ Len(r) <= 10
    /\ \A k \in 1..Len(r) : \E j \in StatOk(tArgs) : tArgs.files[j].file = r[k]
    /\ \A j, k \in 1..Len(r) :
         j < k => MtimeOf(tArgs, r[j]) >= MtimeOf(tArgs, r[k])

C17_Witness ==
  /\ HasScanned
  /\ Len(tArgs.files) > 20
  /\ Len(tTicket.recentFiles) = 10
  /\ \E k \in 1..20 : ~tArgs.files[k].stat
  /\ \E j, k \in StatOk(tArgs) : j < k /\ tArgs.files[j].mtime < tArgs.files[k].mtime
  /\ MtimeOf(tArgs, tTicket.recentFiles[1]) > MtimeOf(tArgs, tTicket.recentFiles[10])

HasSampled == tBy = "captureActiveFilesContent"

\* the file of the list that an entry of the result is about
FileAt(path) ==
  tArgs.paths[CHOOSE k \in 1..Len(tArgs.paths) : tArgs.paths[k].path = path]

\* C14: a sampled file of 50,000 bytes or more has an entry of size and note
\* only, no content; a sampled file of fewer bytes has as content the first
\* min(2000, length) characters of the file.
C14_ContentOnlyOfSmallFilesAndCut ==
  HasSampled =>
    \A k \in 1..Len(tTicket.content.entries) :
      LET e == tTicket.content.entries[k]
          f == FileAt(e.path)
      IN "size" \in DOMAIN e =>
           /\ e.size = f.size
           /\ e.size >= 50000 => DOMAIN e = {"path", "size", "note"}
           /\ e.size < 50000 =>
                /\ "content" \in DOMAIN e
                /\ Len(e.content) = Min(2000, Len(f.content))
                /\ e.content = SubSeq(f.content, 1, Len(e.content))

C14_Witness ==
  /\ HasSampled
  /\ \E k \in 1..Len(tTicket.content.entries) :
       LET e == tTicket.content.entries[k]
       IN "size" \in DOMAIN e /\ e.size = 50000 /\ "content" \notin DOMAIN e
  /\ \E k \in 1..Len(tTicket.content.entries) :
       LET e == tTicket.content.entries[k]
       IN "size" \in DOMAIN e /\ e.size = 49999 /\ Len(e.content) = 2000
  /\ \E k \in 1..Len(tTicket.content.entries) :
       LET e == tTicket.content.entries[k]
       IN "size" \in DOMAIN e /\ e.size = 10 /\ e.content = "let a = 1;"

\* the paths of the first five places of the list given to the sampler
FirstFive == {tArgs.paths[k].path : k \in 1..Min(5, Len(tArgs.paths))}

\* C15: whatever the length of the list, captureActiveFilesContent asks the
\* file system about the first 5 paths only, and every key of the mapping it
\* returns is one of those.
C15_OnlyFirstFivePaths ==
  HasSampled =>
    /\ Len(tTicket.probed) <= 5
    /\ \A k \in 1..Len(tTicket.probed) : tTicket.probed[k] \in FirstFive
    /\ \A k \in 1..Len(tTicket.content.entries) :
         tTicket.content.entries[k].path \in FirstFive

C15_Witness ==
  /\ HasSampled
  /\ Len(tArgs.paths) > 5
  /\ tArgs.paths[6].exists
  /\ Len(tTicket.probed) = 5
  /\ Len(tTicket.content.entries) = 5

\* C16: a stat or read failure on a processed path leaves an entry {error}
\* under that path and nothing else changes: every other path among the first
\* 5 gets the entry it would get alone, and the mapping is returned.
C16_FailureStaysLocal ==
  HasSampled =>
    LET first == slice0(tArgs.paths, 5)
        entries == tTicket.content.entries
        EntryOf(path) == {k \in 1..Len(entries) : entries[k].path = path}
    IN \A k \in 1..Len(first) :
         LET f == first[k]
             failed == f.exists /\ (~f.stat \/ (f.size < 50000 /\ ~f.read))
         IN /\ Cardinality(EntryOf(f.path)) = IF f.exists THEN 1 ELSE 0
            /\ \A j \in EntryOf(f.path) :
                 /\ failed => DOMAIN entries[j] = {"path", "error"}
                 /\ ~failed => "size" \in DOMAIN entries[j]

C16_Witness ==
  /\ HasSampled
  /\ Len(tTicket.content.entries) >= 4
  /\ tArgs.paths[1].exists /\ ~tArgs.paths[1].stat
  /\ DOMAIN tTicket.content.entries[1] = {"path", "error"}
  /\ \E k \in 2..Len(tTicket.content.entries) :
       /\ "error" \in DOMAIN tTicket.content.entries[k]
       /\ tTicket.content.entries[k].error = ReadErrorMessage
       /\ \E j \in (k + 1)..Len(tTicket.content.entries) :
            "content" \in DOMAIN tTicket.content.entries[j]

\* invocation i has compiled its record after a scan that produced values
ScannedAndCompiled(i) ==
  /\ calls[i].tool = "request_help"
  /\ calls[i].pc \in {"write_open", "write_data", "fetch"}
  /\ calls[i].workspaceState # Null

\* C18: once a scan has been performed for a request, totalFiles and
\* recentFiles of the workspace section of the compiled record, and the
\* workspaceFiles metadata of the ticket, are the scanner's values, not the
\* ones the caller put in args.workspace.
C18_ScannerValuesReplaceCallers ==
  \A i \in DOMAIN calls :
    ScannedAndCompiled(i) =>
      LET ws == calls[i].helpContext.workspace
          scanned == calls[i].workspaceState
      IN /\ ws.totalFiles = scanned.totalFiles
         /\ "recentFiles" \in DOMAIN ws
         /\ ws.recentFiles = scanned.recentFiles
         /\ calls[i].pc = "fetch" =>
              calls[i].ticket.metadata.workspaceFiles
                = JsString(NumToString(scanned.totalFiles))

DefaultedSections ==
  {"diagnostics", "solutionsAttempted", "dependencies", "versionControl", "performance"}

\* null, or the empty list for the two list-valued sections
DefaultOf(k) ==
  IF k \in {"solutionsAttempted", "dependencies"} THEN JsArray(<< >>) ELSE Null

\* invocation i is handing its record to the session store or the dispatcher
HandsRecord(i) ==
  /\ calls[i].tool = "request_help"
  /\ calls[i].pc \in {"write_open", "write_data", "fetch"}

\* C19: the record request_help hands to the session store and to the
\* dispatcher has the keys diagnostics, solutionsAttempted, dependencies,
\* versionControl and performance, each with the caller's value or, when the
\* caller left it out, the default (null; [] for the two lists).
C19_OptionalSectionsAlwaysPresent ==
  \A i \in DOMAIN calls :
    HandsRecord(i) =>
      \A k \in DefaultedSections :
        /\ k \in DOMAIN calls[i].helpContext
        /\ calls[i].helpContext[k]
             = IF k \in DOMAIN calls[i].args THEN calls[i].args[k] ELSE DefaultOf(k)

\* what StartRequestHelp(i, raw) resolved agrees with the caller's session
SessionAsSupplied(i, raw) ==
  IF "session" \in DOMAIN raw
    THEN /\ calls'[i].sessionId = raw.session.sessionId
         /\ calls'[i].timestamp = raw.session.timestamp
    ELSE /\ calls'[i].sessionId = GenId(i)
         /\ calls'[i].timestamp = Now

\* C20: when the caller supplies a valid session, request_help uses its
\* sessionId and timestamp as they are (a UUID and the current time being
\* generated only when there is none), and the values in use are the key of
\* the session file, the session of the persisted record, the ticket
\* metadata and the id shown in the response text.
C20_SuppliedSessionIsUsed ==
  /\ [][\A i \in DOMAIN calls : \A raw \in AllRequests :
          StartRequestHelp(i, raw) => SessionAsSupplied(i, raw)]_vars
  /\ [][\A i \in DOMAIN calls :
          (calls[i].pc = "write_open" /\ calls'[i].pc = "write_data") =>
            /\ files'[calls[i].sessionId].exists
            /\ \A k \in DOMAIN files : k # calls[i].sessionId => files'[k] = files[k]]_vars
  /\ [](\A i \in DOMAIN calls :
          HandsRecord(i) =>
            /\ calls[i].helpContext.session.sessionId = calls[i].sessionId
            /\ calls[i].helpContext.session.timestamp = calls[i].timestamp
            /\ (calls[i].pc = "fetch" /\ variant = "persist") =>
                 /\ calls[i].ticket.metadata.sessionId = JsString(calls[i].sessionId)
                 /\ calls[i].ticket.metadata.timestamp = JsString(calls[i].timestamp)
            /\ (calls[i].pc = "fetch" /\ variant = "direct") =>
                 calls[i].ticket.metadata.session
                   = JSONStringifyValue([ sessionId |-> calls[i].sessionId,
                                          timestamp |-> calls[i].timestamp ]))
  /\ []((HasReturned("request_help") /\ returned.call.violation = "ok") =>
          includes(returned.call.result.text, "Session ID: " \o returned.call.sessionId))

\* invocation i of request_help is under way, its session id resolved
InProgress(i) ==
  /\ calls[i].tool = "request_help"
  /\ calls[i].pc \notin {"idle", "done"}

\* C21: any two request_help invocations use different session ids: two that
\* overlap never hold the same id, and an invocation that opens its session
\* file never finds there the file or the record of an earlier invocation.
C21_SessionIdsNeverShared ==
  /\ [](\A i, j \in DOMAIN calls :
          (i # j /\ InProgress(i) /\ InProgress(j)) =>
            calls[i].sessionId # calls[j].sessionId)
  /\ [][\A i \in DOMAIN calls :
          (calls[i].pc = "write_open" /\ calls'[i].pc = "write_data") =>
            /\ ~files[calls[i].sessionId].exists
            /\ ~lastPersist[calls[i].sessionId].some]_vars

\* C22: every value of the metadata map of a ticket built by either
\* transformer from a validated input is a string: objects, arrays, numbers
\* and booleans are there in serialized form, and no value is undefined.
C22_MetadataValuesAreStrings ==
  tBy \in {"transformHelpContextToTicket", "transformArgsToTicket"} =>
    \A k \in DOMAIN tTicket.metadata :
      /\ "t" \in DOMAIN tTicket.metadata[k]
      /\ tTicket.metadata[k].t = "string"

C22_Witness ==
  /\ tBy = "transformArgsToTicket"
  /\ {"diagnostics", "workspace", "dependencies", "session"} \subseteq DOMAIN tTicket.metadata
  /\ \A k \in DOMAIN tTicket.metadata : tTicket.metadata[k].t = "string"
  /\ tTicket.metadata.dependencies.json = tArgs.dependencies

\* the first 30 characters of d, then '...' exactly when d has more than 30
FirstThirty(d) == SubSeq(d, 1, Min(30, Len(d))) \o (IF Len(d) > 30 THEN "..." ELSE "")

\* C23: the title of a ticket is the first 30 characters of the issue
\* description, followed by '...' exactly when the description is longer
\* than 30 characters, and the fixed fallback title when that string has
\* fewer than 5 characters.
C23_TitleIsTruncatedDescription ==
  tBy \in {"transformHelpContextToTicket", "transformArgsToTicket"} =>
    LET t == FirstThirty(tArgs.issue.description)
    IN tTicket.title = IF Len(t) < 5 THEN "Development Help Request" ELSE t

\* C24: with the mode flag set to simulated dispatch (useMockAPI true) a
\* request_help invocation issues no HTTP request, and a validated invocation
\* returns the success response built from a result with ticketId, status,
\* ticketUrl and message.
C24_MockModeIssuesNoRequest ==
  useMockAPI =>
    /\ \A i \in DOMAIN calls : calls[i].posts = 0
    /\ (HasReturned("request_help") /\ returned.call.violation = "ok") =>
         /\ returned.call.posts = 0
         /\ returned.call.result.kind = "success"

ReturnedDispatchFailure ==
  /\ HasReturned("request_help")
  /\ returned.call.result.kind = "error"
  /\ returned.call.result.source \in {"network", "api", "body", "parse"}

\* C26: the dispatch step leaves the session store as it is, whether it
\* succeeds or fails: no step of the dispatch changes a session file, and
\* when the persisting variant returns from a failed dispatch the session
\* file still reads as the record persisted before it, which is what
\* get_help_session of that id then returns.
C26_DispatchLeavesStoreAlone ==
  /\ [][\A i \in DOMAIN calls :
          (calls[i].tool = "request_help" /\ calls[i].pc \in {"fetch", "json", "text"}
             /\ calls'[i] # calls[i])
          => (files' = files /\ lastPersist' = lastPersist)]_vars
  /\ []((ReturnedDispatchFailure /\ variant = "persist") =>
          LET sid == returned.call.sessionId
          IN /\ lastPersist[sid].some
             /\ files[sid].exists
             /\ ReadJson(files[sid]).ok
             /\ ReadJson(files[sid]).value = lastPersist[sid].rec)
  /\ []((HasReturned("get_help_session") /\ variant = "persist"
           /\ returned.call.everPersisted) =>
          /\ returned.call.result.kind = "found"
          /\ returned.call.result.data = lastPersist[returned.call.sessionId].rec)

C26_Witness ==
  /\ variant = "persist"
  /\ ReturnedDispatchFailure
  /\ returned.call.result.source = "api"
  /\ returned.call.response.status = 500
  /\ ReadJson(files[returned.call.sessionId]).ok
  /\ ReadJson(files[returned.call.sessionId]).value
       = lastPersist[returned.call.sessionId].rec
  /\ "ticket" \notin DOMAIN ReadJson(files[returned.call.sessionId]).value

\* the three shapes an entry of the sampler's mapping may have
EntryShapes == {{"size", "lines", "content"}, {"size", "note"}, {"error"}}

\* C27: the mapping captureActiveFilesContent returns has an entry for each
\* of the (at most 5) paths it processes, a path that does not exist
\* included, and each entry has one of the shapes {size, lines, content},
\* {size, note}, {error}.
C27_EveryProcessedPathHasAnEntry ==
  (HasSampled /\ tArgs.isArray) =>
    LET entries == tTicket.content.entries
    IN \A k \in 1..Min(5, Len(tArgs.paths)) :
         \E j \in 1..Len(entries) :
           /\ entries[j].path = tArgs.paths[k].path
           /\ (DOMAIN entries[j]) \ {"path"} \in EntryShapes

\* C28: every entry of recentFiles is one of the first 20 files listed whose
\* stat succeeded: a file listed after the 20th never appears, however
\* recently it was modified, and a failing stat leaves its file out while
\* the scan still returns its result.
C28_RecentFilesComeFromFirstTwenty ==
  tBy = "captureWorkspaceState" =>
    /\ tArgs.root = "ok" =>
         /\ tTicket # Null
         /\ tTicket.totalFiles = Len(tArgs.files)
    /\ tTicket # Null =>
         \A k \in 1..Len(tTicket.recentFiles) :
           \E j \in 1..Min(20, Len(tArgs.files)) :
             /\ tArgs.files[j].file = tTicket.recentFiles[k]
             /\ tArgs.files[j].stat

C28_Witness ==
  /\ HasScanned
  /\ Len(tArgs.files) > 20
  /\ tArgs.files[21].stat
  /\ \A j \in 1..20 : tArgs.files[j].mtime < tArgs.files[21].mtime
  /\ \E j \in 1..20 : ~tArgs.files[j].stat
  /\ Len(tTicket.recentFiles) = 10
  /\ \A k \in 1..10 : tTicket.recentFiles[k] # tArgs.files[21].file

\* field k of the object obj is there and is not the empty string
PresentNonEmpty(obj, k) ==
  /\ obj # Undefined
  /\ Lookup(obj, k) # Undefined
  /\ Lookup(obj, k) # JsString("")

\* the nested ticket's field when present and non-empty, else the top-level one
NestedElseTop(result, nestedKey, topKey) ==
  IF PresentNonEmpty(Lookup(result, "ticket"), nestedKey)
    THEN Lookup(Lookup(result, "ticket"), nestedKey)
    ELSE Lookup(result, topKey)

\* C29: for a 2xx answer with a JSON body, ticketId, status and priority of
\* the normalized result are the nested ticket's id, status and priority
\* where present and non-empty and the top-level id, status, priority
\* otherwise; message is the remote message, or the fixed default text when
\* the remote sent none.
C29_NestedTicketFieldsWin ==
  tBy = "NormalizeApiResult" =>
    /\ tTicket.ticketId = NestedElseTop(tArgs.value, "id", "id")
    /\ tTicket.status = NestedElseTop(tArgs.value, "status", "status")
    /\ tTicket.priority = NestedElseTop(tArgs.value, "priority", "priority")
    /\ tTicket.message =
         IF PresentNonEmpty(tArgs.value, "message")
           THEN Lookup(tArgs.value, "message")
           ELSE JsString("Help request ticket created successfully")

C29_Witness ==
  /\ tBy = "NormalizeApiResult"
  /\ tTicket.ticketId = JsString("nested")
  /\ Lookup(tArgs.value, "id") = JsString("top")
  /\ Lookup(Lookup(tArgs.value, "ticket"), "status") = JsString("")
  /\ tTicket.status = JsString("top")
  /\ Lookup(tArgs.value, "message") = Undefined
  /\ tTicket.message = JsString("Help request ticket created successfully")

\* C30: provided every I/O operation it starts completes or fails, every
\* request_help invocation eventually returns, and it returns once: one
\* string, the success response or the error response, after which the
\* invocation takes no further step. Invocations are serial here, so "the
\* invocation in progress returns" is "no invocation is in progress any more",
\* an invocation leaving that state only by finishing with its response.
C30_EveryInvocationResponds ==
  /\ (\E i \in CallSlots : InProgress(i)) ~> Quiet
  /\ [][\A i \in DOMAIN calls :
          /\ calls[i].pc = "done" => (calls'[i] = calls[i] /\ returned'.slot # i)
          /\ (InProgress(i) /\ calls'[i].pc \in {"idle", "done"}) =>
                (calls'[i].pc = "done" /\ returned'.slot = i)]_vars
  /\ []((HasReturned("request_help") /\ returned.call.violation = "ok") =>
          /\ returned.call.result.kind \in {"success", "error"}
          /\ Len(returned.call.result.text) > 0)

C30_Witness ==
  /\ HasReturned("request_help")
  /\ returned.call.result.kind = "error"
  /\ returned.call.result.source = "body"
  /\ returned.call.posts = 1
  /\ returned.call.response.bodyUsed

====
